---- MODULE Spec2Model ----
(***************************************************************************)
(* The token relay of server.js: an express application that hides the     *)
(* provider API key from the browser.  A request passes the cors origin    *)
(* callback, is dispatched to a route handler, and a proxying handler      *)
(* issues outbound GETs to the provider and relays the answer.             *)
(*                                                                         *)
(* Strings that the code takes apart (the allow-list, the agent id, the    *)
(* token) are sequences of one-character strings; HTTP bodies and URLs are *)
(* TLA+ strings built from them by concatenation.  A JSON value is a       *)
(* tagged record, an object keeping its keys in insertion order, a string  *)
(* the sequence of the pieces it is the concatenation of.                  *)
(***************************************************************************)
EXTENDS Integers, Sequences, FiniteSets, TLC

VARIABLES env, build, req, shadow

vars == <<env, build, req, shadow>>

(***************************************************************************)
(* Bounds of the model.                                                    *)
(***************************************************************************)
\* Longest "agents" array the provider answers with.
MaxAgents == 2
\* Requests in flight at the same time (SpecConc, FairSpec).
MaxReq == 2

(***************************************************************************)
(* Strings.                                                                *)
(***************************************************************************)
RECURSIVE Join(_)
Join(s) == IF s = <<>> THEN "" ELSE Head(s) \o Join(Tail(s))

\* The printable ASCII characters, code 32 first (code 96, the grave accent,
\* is spelled out: no string of the model holds it).
Ascii ==
  << " ", "!", "\"", "#", "$", "%", "&", "'", "(", ")", "*", "+", ",", "-", ".", "/",
     "0", "1", "2", "3", "4", "5", "6", "7", "8", "9", ":", ";", "<", "=", ">", "?",
     "@", "A", "B", "C", "D", "E", "F", "G", "H", "I", "J", "K", "L", "M", "N", "O",
     "P", "Q", "R", "S", "T", "U", "V", "W", "X", "Y", "Z", "[", "\\", "]", "^", "_",
     "GRAVE", "a", "b", "c", "d", "e", "f", "g", "h", "i", "j", "k", "l", "m", "n", "o",
     "p", "q", "r", "s", "t", "u", "v", "w", "x", "y", "z", "{", "|", "}", "~" >>

\* String.prototype.trim on a sequence of characters (blanks only).
RECURSIVE TrimLeft(_)
TrimLeft(s) == IF s # <<>> /\ Head(s) = " " THEN TrimLeft(Tail(s)) ELSE s

RECURSIVE TrimRight(_)
TrimRight(s) ==
  IF s # <<>> /\ s[Len(s)] = " " THEN TrimRight(SubSeq(s, 1, Len(s) - 1)) ELSE s

Trim(s) == TrimRight(TrimLeft(s))

\* String.prototype.split(sep): the pieces between the separators, in order;
\* the empty string splits into one empty piece.
RECURSIVE SplitAcc(_, _, _)
SplitAcc(s, sep, cur) ==
  IF s = <<>> THEN << cur >>
  ELSE IF Head(s) = sep THEN << cur >> \o SplitAcc(Tail(s), sep, <<>>)
  ELSE SplitAcc(Tail(s), sep, Append(cur, Head(s)))

Split(s, sep) == SplitAcc(s, sep, <<>>)

\* String.prototype.replace(/a/g, b) for a one-character pattern.
ReplaceAll(s, a, b) == [i \in 1..Len(s) |-> IF s[i] = a THEN b ELSE s[i]]

\* Array.prototype.filter(Boolean) on strings: the empty ones go.
RECURSIVE FilterNonEmpty(_)
FilterNonEmpty(ps) ==
  IF ps = <<>> THEN <<>>
  ELSE IF Head(ps) = <<>> THEN FilterNonEmpty(Tail(ps))
  ELSE << Head(ps) >> \o FilterNonEmpty(Tail(ps))

\* encodeURIComponent: letters, digits and - _ . ! ~ * ' ( ) stay, every other
\* character becomes %XX of its code.
Unreserved ==
  { Ascii[i] : i \in (17..26) \cup (34..59) \cup (66..91) } \cup
  { "-", "_", ".", "!", "~", "*", "'", "(", ")" }

HexDigit == << "0", "1", "2", "3", "4", "5", "6", "7", "8", "9", "A", "B", "C", "D", "E", "F" >>

CharCode(c) == 31 + CHOOSE i \in 1..Len(Ascii) : Ascii[i] = c

PercentEncode(c) == "%" \o HexDigit[(CharCode(c) \div 16) + 1] \o HexDigit[(CharCode(c) % 16) + 1]

encodeURIComponent(s) ==
  Join([i \in 1..Len(s) |-> IF s[i] \in Unreserved THEN s[i] ELSE PercentEncode(s[i])])

(***************************************************************************)
(* JSON values, JSON.stringify and JSON.parse.                             *)
(***************************************************************************)
JUndefined == [t |-> "undefined"]
JNull == [t |-> "null"]
JBool(b) == [t |-> "bool", b |-> b]
JNum(n) == [t |-> "num", n |-> n]
JStr(s) == [t |-> "str", s |-> s]
JArr(a) == [t |-> "arr", a |-> a]
JObj(kv) == [t |-> "obj", kv |-> kv]
KV(k, v) == [k |-> k, v |-> v]

Digits(n) == IF n < 10 THEN Ascii[17 + n]
             ELSE IF n < 100 THEN Ascii[17 + (n \div 10)] \o Ascii[17 + (n % 10)]
             ELSE Ascii[17 + (n \div 100)] \o Ascii[17 + ((n \div 10) % 10)] \o Ascii[17 + (n % 10)]

\* JSON.stringify; no string of the model holds a character that needs an escape.
RECURSIVE JSONStringify(_)
RECURSIVE StringifyItems(_)
RECURSIVE StringifyPairs(_)
StringifyItems(a) ==
  IF a = <<>> THEN ""
  ELSE JSONStringify(Head(a)) \o (IF Len(a) > 1 THEN "," ELSE "") \o StringifyItems(Tail(a))

StringifyPairs(kv) ==
  IF kv = <<>> THEN ""
  ELSE "\"" \o Head(kv).k \o "\":" \o JSONStringify(Head(kv).v)
       \o (IF Len(kv) > 1 THEN "," ELSE "") \o StringifyPairs(Tail(kv))

JSONStringify(v) ==
  CASE v.t = "null" -> "null"
    [] v.t = "bool" -> IF v.b THEN "true" ELSE "false"
    [] v.t = "num" -> Digits(v.n)
    [] v.t = "str" -> "\"" \o Join(v.s) \o "\""
    [] v.t = "arr" -> "[" \o StringifyItems(v.a) \o "]"
    [] v.t = "obj" -> "{" \o StringifyPairs(v.kv) \o "}"

\* v?.k : the property k of an object, undefined for anything else.
Get(v, k) ==
  IF v.t = "obj" /\ \E i \in 1..Len(v.kv) : v.kv[i].k = k
  THEN v.kv[CHOOSE i \in 1..Len(v.kv) : v.kv[i].k = k].v
  ELSE JUndefined

(***************************************************************************)
(* What the provider may send: JSON values and their texts.                *)
(***************************************************************************)
AgentX == << "X" >>
AgentY == << "Y" >>

\* The items an "agents" array may hold.
AgentEntries ==
  { JObj(<< KV("agent_id", JStr(AgentX)) >>),
    JObj(<< KV("agent_id", JStr(AgentY)) >>),
    JObj(<< KV("id", JStr(AgentY)), KV("name", JStr(<< "n", "2" >>)) >>),
    JNull }

AgentLists == UNION { [1..n -> AgentEntries] : n \in 0..MaxAgents }

ListValues == { JObj(<< KV("agents", JArr(l)) >>) : l \in AgentLists }

\* header.payload.signature; the payloads are {"exp":123}, {"a":">>>???"} (its
\* base64url form holds - and _) and two bytes that are no JSON text.
TokenExp ==
  << "h", ".", "e", "y", "J", "l", "e", "H", "A", "i", "O", "j", "E", "y", "M", "3", "0", ".", "s" >>
TokenUrlSafe ==
  << "h", ".", "e", "y", "J", "h", "I", "j", "o", "i", "P", "j", "4", "-", "P", "z", "8", "_",
     "I", "n", "0", ".", "s" >>
TokenNoJson == << "h", ".", "e", "y", "J", ".", "s" >>
TokenOnePart == << "a", "b", "c" >>

PayloadValues ==
  { JObj(<< KV("exp", JNum(123)) >>),
    JObj(<< KV("a", JStr(<< ">", ">", ">", "?", "?", "?" >>)) >>) }

TokenValues ==
  { JObj(<< KV("token", JStr(tk)) >>) : tk \in { TokenExp, TokenUrlSafe, TokenNoJson, TokenOnePart } }
  \cup { JObj(<< KV("token", JNum(5)) >>) }

OtherValues ==
  { JNull,
    JObj(<< KV("agent_id", JStr(AgentY)), KV("name", JStr(<< "n", "1" >>)) >>),
    JObj(<< KV("agents", JStr(<< "n", "o" >>)) >>),
    JObj(<< KV("detail", JStr(<< "q", "u", "o", "t", "a" >>)) >>) }

JSONValues == ListValues \cup TokenValues \cup OtherValues \cup PayloadValues

\* A JSON text that JSON.stringify does not produce, and texts that are no JSON.
SpacedText == "{ \"detail\" : \"quota\" }"
SpacedValue == JObj(<< KV("detail", JStr(<< "q", "u", "o", "t", "a" >>)) >>)
NonJsonTexts == { "", "Bad Gateway" }

Texts ==
  { JSONStringify(v) : v \in ListValues \cup TokenValues \cup OtherValues }
  \cup { SpacedText } \cup NonJsonTexts

\* The result of an expression that may throw.
Ok(v) == [ok |-> TRUE, v |-> v, err |-> ""]
Throw(e) == [ok |-> FALSE, v |-> JUndefined, err |-> e]

\* JSON.parse on the texts of the model: the value whose text it is, and a
\* SyntaxError for a text of no value.
JsonTexts == { JSONStringify(v) : v \in JSONValues }

ValueOfText ==
  [text \in JsonTexts |-> CHOOSE v \in JSONValues : JSONStringify(v) = text]

JSONParse(text) ==
  IF text = SpacedText THEN Ok(SpacedValue)
  ELSE IF text \in JsonTexts THEN Ok(ValueOfText[text])
  ELSE Throw("SyntaxError: Unexpected token in JSON")

(***************************************************************************)
(* Buffer.from(s, 'base64').toString('utf8')                               *)
(***************************************************************************)
Base64Alphabet ==
  << "A", "B", "C", "D", "E", "F", "G", "H", "I", "J", "K", "L", "M", "N", "O", "P",
     "Q", "R", "S", "T", "U", "V", "W", "X", "Y", "Z", "a", "b", "c", "d", "e", "f",
     "g", "h", "i", "j", "k", "l", "m", "n", "o", "p", "q", "r", "s", "t", "u", "v",
     "w", "x", "y", "z", "0", "1", "2", "3", "4", "5", "6", "7", "8", "9", "+", "/" >>

IsBase64Char(c) == \E i \in 1..64 : Base64Alphabet[i] = c

Base64Index(c) == (CHOOSE i \in 1..64 : Base64Alphabet[i] = c) - 1

\* The six-bit values of the characters of the alphabet; other characters are
\* skipped.
RECURSIVE Sextets(_)
Sextets(s) ==
  IF s = <<>> THEN <<>>
  ELSE IF IsBase64Char(Head(s)) THEN << Base64Index(Head(s)) >> \o Sextets(Tail(s))
  ELSE Sextets(Tail(s))

\* Four sextets give three bytes, three give two, two give one.
RECURSIVE Base64Bytes(_)
Base64Bytes(q) ==
  IF Len(q) < 2 THEN <<>>
  ELSE LET b1 == q[1] * 4 + (q[2] \div 16)
           b2 == (q[2] % 16) * 16 + (q[3] \div 4)
           b3 == (q[3] % 4) * 64 + q[4]
       IN IF Len(q) = 2 THEN << b1 >>
          ELSE IF Len(q) = 3 THEN << b1, b2 >>
          ELSE << b1, b2, b3 >> \o Base64Bytes(SubSeq(q, 5, Len(q)))

\* A byte that is no printable ASCII decodes to the replacement character.
Utf8Char(b) == IF b \in 32..126 THEN Ascii[b - 31] ELSE "U+FFFD"

Base64Decode(s) == LET bytes == Base64Bytes(Sextets(s))
                   IN Join([i \in 1..Len(bytes) |-> Utf8Char(bytes[i])])

(***************************************************************************)
(* The process environment and the requests.                               *)
(***************************************************************************)
KeyA == << "s", "k", "_", "A" >>
KeyB == << "s", "k", "_", "B", "B" >>
AgentSlash == << "a", "/", "b" >>

OriginA == << "h", "t", "t", "p", ":", "/", "/", "a" >>
OriginB == << "h", "t", "t", "p", ":", "/", "/", "b" >>
OriginEvil == << "h", "t", "t", "p", ":", "/", "/", "a", "b" >>

\* The Origin header of a request: absent, or present with a value.
NoOrigin == [present |-> FALSE, value |-> <<>>]
Origin(v) == [present |-> TRUE, value |-> v]

\* A request on its way through the application.
\*   pc       "idle", "fetch" (awaiting fetch), "body" (awaiting r.text() or
\*            r.json()), "done" (the handler has returned)
\*   handled  the request reached the router
\*   k        the candidate of tryEndpoints being tried
\*   calls    the outbound requests issued, in order; late: issued after a
\*            response had been sent
\*   answers  the statuses the provider answered with, in order
\*   status   r.status of the answer whose body is awaited or was read last
\*   read     the body of that answer has been read, and no call issued since
\*   text     that body
\*   thrown   the exceptions raised inside the handler, each with the place
\*            that raised it
\*   resp     the responses sent to the caller, in order
Idle ==
  [pc |-> "idle", route |-> "", origin |-> NoOrigin, handled |-> FALSE, k |-> 0,
   calls |-> <<>>, answers |-> <<>>, status |-> 0, read |-> FALSE, text |-> "",
   thrown |-> <<>>, resp |-> <<>>]

\* The events a handler runs on: the request itself, and the settling of the
\* promise it awaits.
EvStart == [type |-> "start", status |-> 0, text |-> "", err |-> ""]
EvResponse(st) == [type |-> "response", status |-> st, text |-> "", err |-> ""]
EvBody(tx) == [type |-> "body", status |-> 0, text |-> tx, err |-> ""]
EvReject(e) == [type |-> "reject", status |-> 0, text |-> "", err |-> e]

\* res.status(st).send(body), res.status(st).json(v), return.
Send(r, st, body) == [r EXCEPT !.resp = Append(@, [status |-> st, body |-> body])]
SendJson(r, st, v) == Send(r, st, JSONStringify(v))
Return(r) == [r EXCEPT !.pc = "done"]

\* await fetch(url, { headers: { 'xi-api-key': key } })
Fetch(r, url, key, k) ==
  [r EXCEPT !.pc = "fetch", !.k = k, !.read = FALSE, !.text = "",
            !.calls = Append(@, [url |-> url, key |-> Join(key), late |-> r.resp # <<>>])]

\* The fetch resolved: r.status is known, the body is awaited.
AwaitBody(r, st) ==
  [r EXCEPT !.pc = "body", !.status = st, !.read = FALSE, !.answers = Append(@, st)]

\* await r.text() gave the body.
GotBody(r, text) == [r EXCEPT !.read = TRUE, !.text = text]

\* An exception is raised at a place of the handler.
Raise(r, site, err) == [r EXCEPT !.thrown = Append(@, [site |-> site, err |-> err])]

\* r.ok
IsOk(st) == st >= 200 /\ st <= 299

\* A string given whole, as a JSON string.
Str(text) == JStr(<< text >>)

MissingEnvVars(r) == Return(SendJson(r, 500, JObj(<< KV("error", Str("missing_env_vars")) >>)))

\* ServerError with the key in the detail.
ServerErrorWithKey(e, r, err) ==
  Return(SendJson(r, 500,
    JObj(<< KV("error", Str("server_error")),
            KV("detail", Str(err \o " (xi-api-key " \o Join(e.ELEVEN_API_KEY) \o ")")) >>)))

\* catch (e) { res.status(500).json({ error: 'server_error', detail: String(e) }) }
ServerError(e, r, err) ==
  Return(SendJson(r, 500, JObj(<< KV("error", Str("server_error")), KV("detail", Str(err)) >>)))

(***************************************************************************)
(* The cors origin callback.                                               *)
(***************************************************************************)
\* const allowList = (process.env.ALLOWED_ORIGINS || '').split(',').map(trim).filter(Boolean)
allowList(e) ==
  LET pieces == Split(e.ALLOWED_ORIGINS, ",")
  IN FilterNonEmpty([i \in 1..Len(pieces) |-> Trim(pieces[i])])

\* !origin : the header is absent, or its value is the empty string.
Falsy(origin) == ~origin.present \/ origin.value = <<>>

\* TRUE: cb(null, true); FALSE: cb(new Error('Origin not allowed: ' + origin)).
CorsAllows(e, origin) ==
  \/ Falsy(origin)
  \/ \E i \in 1..Len(allowList(e)) : allowList(e)[i] = origin.value

\* The error of the callback goes to next(err): the framework answers it and
\* no route handler runs.
CorsReject(r) ==
  Return(Send(r, 500, "Error: Origin not allowed: " \o Join(r.origin.value)))

(***************************************************************************)
(* The route handlers.  Each is the handler's code from the event that     *)
(* starts or resumes it to its next await or its return.                   *)
(***************************************************************************)
ApiBase == "https://api.elevenlabs.io"

TokenUrl(agentId) ==
  ApiBase \o "/v1/convai/conversation/token?agent_id=" \o encodeURIComponent(agentId)

SignedUrlUrl(agentId) ==
  ApiBase \o "/v1/convai/conversation/get-signed-url?agent_id=" \o encodeURIComponent(agentId)

tryEndpoints(agentId) ==
  << ApiBase \o "/v1/agents/" \o encodeURIComponent(agentId),
     ApiBase \o "/v1/convai/agents/" \o encodeURIComponent(agentId),
     ApiBase \o "/v1/convai/agents?limit=200" >>

\* MissingEnv without the test of the agent id.
MissingEnvKeyOnly(e) == e.ELEVEN_API_KEY = <<>>

\* if (!key || !agentId)
MissingEnv(e) == e.ELEVEN_API_KEY = <<>> \/ e.ELEVEN_AGENT_ID = <<>>

\* PassThrough that answers a status that is not 2xx with a local 500.
PassThroughOkOnly(e, r, ev, url) ==
  CASE ev.type = "start" ->
         IF e.ELEVEN_API_KEY = <<>> \/ e.ELEVEN_AGENT_ID = <<>> THEN MissingEnvVars(r)
         ELSE Fetch(r, url, e.ELEVEN_API_KEY, 1)
    [] ev.type = "response" -> AwaitBody(r, ev.status)
    [] ev.type = "body" ->
         IF IsOk(r.status) THEN Return(Send(GotBody(r, ev.text), r.status, ev.text))
         ELSE ServerError(e, GotBody(r, ev.text), "Error: upstream " \o ev.text)
    [] ev.type = "reject" -> ServerError(e, Raise(r, "await", ev.err), ev.err)

\* A handler that fetches one URL and passes status and body through.
PassThrough(e, r, ev, url) ==
  CASE ev.type = "start" ->
         IF MissingEnv(e) THEN MissingEnvVars(r)
         ELSE Fetch(r, url, e.ELEVEN_API_KEY, 1)
    [] ev.type = "response" -> AwaitBody(r, ev.status)
    [] ev.type = "body" -> Return(Send(GotBody(r, ev.text), r.status, ev.text))
    [] ev.type = "reject" -> ServerError(e, Raise(r, "await", ev.err), ev.err)

\* GET /api/webrtc-token
WebrtcToken(e, r, ev) == PassThrough(e, r, ev, TokenUrl(e.ELEVEN_AGENT_ID))

\* GET /api/webrtc-signed-url
WebrtcSignedUrl(e, r, ev) == PassThrough(e, r, ev, SignedUrlUrl(e.ELEVEN_AGENT_ID))

\* GET /api/verify-agent, the variant with one endpoint
VerifyAgentSimple(e, r, ev) == PassThrough(e, r, ev, tryEndpoints(e.ELEVEN_AGENT_ID)[1])

\* a => a?.agent_id === agentId || a?.id === agentId
AgentMatches(a, agentId) ==
  Get(a, "agent_id") = JStr(agentId) \/ Get(a, "id") = JStr(agentId)

\* VerifyNext that goes on to the next endpoint after any status that is not 2xx.
VerifyNextSkipErrors(e, r, text) ==
  IF IsOk(r.status) THEN Return(Send(r, r.status, text))
  ELSE IF r.k < Len(tryEndpoints(e.ELEVEN_AGENT_ID))
  THEN Fetch(r, tryEndpoints(e.ELEVEN_AGENT_ID)[r.k + 1], e.ELEVEN_API_KEY, r.k + 1)
  ELSE Return(SendJson(r, 404,
         JObj(<< KV("ok", JBool(FALSE)), KV("error", Str("agent_not_found_on_any_endpoint")),
                 KV("agentId", JStr(e.ELEVEN_AGENT_ID)) >>)))

\* VerifyNext that gives up one endpoint early.
VerifyNextOffByOne(e, r, text) ==
  IF r.status # 404 THEN Return(Send(r, r.status, text))
  ELSE IF r.k < Len(tryEndpoints(e.ELEVEN_AGENT_ID)) - 1
  THEN Fetch(r, tryEndpoints(e.ELEVEN_AGENT_ID)[r.k + 1], e.ELEVEN_API_KEY, r.k + 1)
  ELSE Return(SendJson(r, 404,
         JObj(<< KV("ok", JBool(FALSE)), KV("error", Str("agent_not_found_on_any_endpoint")),
                 KV("agentId", JStr(e.ELEVEN_AGENT_ID)) >>)))

\* The end of one turn of the loop over tryEndpoints, and the code after it.
VerifyNext(e, r, text) ==
  IF r.status # 404 THEN Return(Send(r, r.status, text))
  ELSE IF r.k < Len(tryEndpoints(e.ELEVEN_AGENT_ID))
  THEN Fetch(r, tryEndpoints(e.ELEVEN_AGENT_ID)[r.k + 1], e.ELEVEN_API_KEY, r.k + 1)
  ELSE Return(SendJson(r, 404,
         JObj(<< KV("ok", JBool(FALSE)), KV("error", Str("agent_not_found_on_any_endpoint")),
                 KV("agentId", JStr(e.ELEVEN_AGENT_ID)) >>)))

\* VerifyOk that answers with the last matching entry of the array.
VerifyOkLastMatch(e, r, text) ==
  LET url == tryEndpoints(e.ELEVEN_AGENT_ID)[r.k]
      parsed == JSONParse(text)
      agents == Get(parsed.v, "agents")
      hits == { i \in 1..Len(agents.a) : AgentMatches(agents.a[i], e.ELEVEN_AGENT_ID) }
      found == agents.a[CHOOSE i \in hits : \A j \in hits : i >= j]
  IN IF ~parsed.ok
     THEN Return(SendJson(Raise(r, "JSON.parse", parsed.err), 200,
            JObj(<< KV("ok", JBool(TRUE)), KV("from", Str(url)), KV("raw", Str(text)) >>)))
     ELSE IF agents.t = "arr"
     THEN IF hits # {}
          THEN Return(SendJson(r, 200,
                 JObj(<< KV("ok", JBool(TRUE)), KV("from", Str(url)), KV("agent", found) >>)))
          ELSE VerifyNext(e, r, text)
     ELSE Return(SendJson(r, 200,
            JObj(<< KV("ok", JBool(TRUE)), KV("from", Str(url)), KV("body", parsed.v) >>)))

\* if (r.ok) { try { ... } catch { ... } }
VerifyOk(e, r, text) ==
  LET url == tryEndpoints(e.ELEVEN_AGENT_ID)[r.k]
      parsed == JSONParse(text)
      agents == Get(parsed.v, "agents")
      hits == { i \in 1..Len(agents.a) : AgentMatches(agents.a[i], e.ELEVEN_AGENT_ID) }
      found == agents.a[CHOOSE i \in hits : \A j \in hits : i <= j]
  IN IF ~parsed.ok
     THEN Return(SendJson(Raise(r, "JSON.parse", parsed.err), 200,
            JObj(<< KV("ok", JBool(TRUE)), KV("from", Str(url)), KV("raw", Str(text)) >>)))
     ELSE IF agents.t = "arr"
     THEN IF hits # {}
          THEN Return(SendJson(r, 200,
                 JObj(<< KV("ok", JBool(TRUE)), KV("from", Str(url)), KV("agent", found) >>)))
          ELSE VerifyNext(e, r, text)
     ELSE Return(SendJson(r, 200,
            JObj(<< KV("ok", JBool(TRUE)), KV("from", Str(url)), KV("body", parsed.v) >>)))

VerifyBody(e, r, text) ==
  IF IsOk(r.status) THEN VerifyOk(e, r, text) ELSE VerifyNext(e, r, text)

\* GET /api/verify-agent, the variant that tries three endpoints
VerifyAgent(e, r, ev) ==
  CASE ev.type = "start" ->
         IF MissingEnv(e) THEN MissingEnvVars(r)
         ELSE Fetch(r, tryEndpoints(e.ELEVEN_AGENT_ID)[1], e.ELEVEN_API_KEY, 1)
    [] ev.type = "response" -> AwaitBody(r, ev.status)
    [] ev.type = "body" -> VerifyBody(e, GotBody(r, ev.text), ev.text)
    [] ev.type = "reject" -> ServerError(e, Raise(r, "await", ev.err), ev.err)

\* const { token } = json; token.split('.'); parts[1].replace(...); Buffer.from;
\* JSON.parse: the decoded payload, or what is thrown on the way.
DecodeToken(json) ==
  LET token == Get(json, "token")
      parts == Split(token.s, ".")
      b64 == ReplaceAll(ReplaceAll(parts[2], "-", "+"), "_", "/")
  IN IF json.t \in { "null", "undefined" }
     THEN Throw("TypeError: Cannot destructure property 'token' of 'json' as it is null.")
     ELSE IF token.t = "undefined"
     THEN Throw("TypeError: Cannot read properties of undefined (reading 'split')")
     ELSE IF token.t # "str"
     THEN Throw("TypeError: token.split is not a function")
     ELSE IF Len(parts) < 2
     THEN Throw("TypeError: Cannot read properties of undefined (reading 'replace')")
     ELSE JSONParse(Base64Decode(b64))

\* DebugBody that answers a token it cannot decode with a null payload.
DebugBodyNullPayload(e, r, text) ==
  LET parsed == JSONParse(text)
      payload == DecodeToken(parsed.v)
  IN IF ~parsed.ok THEN ServerError(e, Raise(r, "r.json", parsed.err), parsed.err)
     ELSE IF ~IsOk(r.status) THEN Return(SendJson(r, r.status, parsed.v))
     ELSE IF ~payload.ok
     THEN Return(SendJson(Raise(r, "decode", payload.err), 200,
            JObj(<< KV("token_issued_for_agent_env", JStr(e.ELEVEN_AGENT_ID)),
                    KV("decoded_payload", JNull) >>)))
     ELSE Return(SendJson(r, 200,
            JObj(<< KV("token_issued_for_agent_env", JStr(e.ELEVEN_AGENT_ID)),
                    KV("decoded_payload", payload.v) >>)))

\* DebugBody without the return after forwarding the provider's error.
DebugBodyNoReturn(e, r, text) ==
  LET parsed == JSONParse(text)
      payload == DecodeToken(parsed.v)
      r1 == IF ~IsOk(r.status) THEN SendJson(r, r.status, parsed.v) ELSE r
  IN IF ~parsed.ok THEN ServerError(e, Raise(r, "r.json", parsed.err), parsed.err)
     ELSE IF ~payload.ok THEN ServerError(e, Raise(r1, "decode", payload.err), payload.err)
     ELSE Return(SendJson(r1, 200,
            JObj(<< KV("token_issued_for_agent_env", JStr(e.ELEVEN_AGENT_ID)),
                    KV("decoded_payload", payload.v) >>)))

\* const json = await r.json(); if (!r.ok) ...; decode; res.json(...)
DebugBody(e, r, text) ==
  LET parsed == JSONParse(text)
      payload == DecodeToken(parsed.v)
  IN IF ~parsed.ok THEN ServerError(e, Raise(r, "r.json", parsed.err), parsed.err)
     ELSE IF ~IsOk(r.status) THEN Return(SendJson(r, r.status, parsed.v))
     ELSE IF ~payload.ok THEN ServerError(e, Raise(r, "decode", payload.err), payload.err)
     ELSE Return(SendJson(r, 200,
            JObj(<< KV("token_issued_for_agent_env", JStr(e.ELEVEN_AGENT_ID)),
                    KV("decoded_payload", payload.v) >>)))

\* GET /api/webrtc-token-debug
WebrtcTokenDebug(e, r, ev) ==
  CASE ev.type = "start" ->
         IF MissingEnv(e) THEN MissingEnvVars(r)
         ELSE Fetch(r, TokenUrl(e.ELEVEN_AGENT_ID), e.ELEVEN_API_KEY, 1)
    [] ev.type = "response" -> AwaitBody(r, ev.status)
    [] ev.type = "body" -> DebugBody(e, GotBody(r, ev.text), ev.text)
    [] ev.type = "reject" -> ServerError(e, Raise(r, "await", ev.err), ev.err)

\* GET / and GET /healthz
Root(r) == Return(Send(r, 200, "OK"))
Healthz(r) == Return(SendJson(r, 200, JObj(<< KV("ok", JBool(TRUE)) >>)))

\* app.use((req, res) => res.status(404).json({ error: 'not_found', hint }))
NotFound(r) ==
  Return(SendJson(r, 404,
    JObj(<< KV("error", Str("not_found")),
            KV("hint", Str("Try /, /healthz, /api/webrtc-token, /api/webrtc-signed-url, /api/verify-agent, /api/webrtc-token-debug")) >>)))

ProxyRoutes ==
  { "/api/webrtc-token", "/api/webrtc-signed-url", "/api/verify-agent", "/api/webrtc-token-debug" }

Routes == ProxyRoutes \cup { "/", "/healthz", "/favicon.ico" }

\* The router: the handler of the request's path, run on one event.
Handle(e, b, r, ev) ==
  CASE r.route = "/api/webrtc-token" -> WebrtcToken(e, r, ev)
    [] r.route = "/api/webrtc-signed-url" -> WebrtcSignedUrl(e, r, ev)
    [] r.route = "/api/verify-agent" ->
         IF b = "multi" THEN VerifyAgent(e, r, ev) ELSE VerifyAgentSimple(e, r, ev)
    [] r.route = "/api/webrtc-token-debug" -> WebrtcTokenDebug(e, r, ev)
    [] r.route = "/" -> Root(r)
    [] r.route = "/healthz" -> Healthz(r)
    [] OTHER -> NotFound(r)

\* A request from the socket to the handler's first await or its response: the
\* cors middleware, then the router.
Accept(e, b, route, origin) ==
  LET r == [Idle EXCEPT !.route = route, !.origin = origin]
  IN IF CorsAllows(e, origin)
     THEN Handle(e, b, [r EXCEPT !.handled = TRUE], EvStart)
     ELSE CorsReject(r)

(***************************************************************************)
(* The state machine.  env is process.env, build the revision deployed,    *)
(* req the requests being served.  shadow serves the same requests with    *)
(* the same answers of the provider under another API key.                 *)
(***************************************************************************)
AllowedOriginsValues ==
  { <<>>,
    OriginA,
    << " " >> \o OriginA \o << " ", ",", ",", " ", ",", " " >> \o OriginB }

Envs ==
  [ALLOWED_ORIGINS : AllowedOriginsValues,
   ELEVEN_API_KEY : { <<>>, KeyA },
   ELEVEN_AGENT_ID : { <<>>, AgentY, AgentSlash }]

Builds == { "multi", "simple" }

OriginHeaders ==
  { NoOrigin, Origin(<<>>), Origin(OriginA), Origin(OriginB), Origin(OriginEvil) }

Statuses == { 200, 201, 404, 503 }

Rejections ==
  { "FetchError: request failed, reason: connect ECONNREFUSED",
    "FetchError: Premature close" }

\* The sets the requests and the provider's answers are drawn from.
Rich == [routes |-> Routes, origins |-> OriginHeaders, statuses |-> Statuses,
         texts |-> Texts, rejections |-> Rejections]

\* The same process under the other key.
OtherEnv(e) ==
  [e EXCEPT !.ELEVEN_API_KEY = IF @ = <<>> THEN <<>> ELSE KeyB]

\* One event of request i, in both runs.
Step(i, ev) ==
  /\ req' = [req EXCEPT ![i] = Handle(env, build, @, ev)]
  /\ shadow' = [shadow EXCEPT ![i] = IF @.pc = req[i].pc
                                     THEN Handle(OtherEnv(env), build, @, ev) ELSE @]
  /\ UNCHANGED <<env, build>>

\* A request arrives on a free connection.
Arrive(i, in) ==
  /\ req[i].pc = "idle"
  /\ \E route \in in.routes, origin \in in.origins :
       /\ req' = [req EXCEPT ![i] = Accept(env, build, route, origin)]
       /\ shadow' = [shadow EXCEPT ![i] = Accept(OtherEnv(env), build, route, origin)]
  /\ UNCHANGED <<env, build>>

\* The provider's status line and headers arrive: fetch resolves.
FetchResolves(i, in) ==
  /\ req[i].pc = "fetch"
  /\ \E st \in in.statuses : Step(i, EvResponse(st))

\* The provider's body has been read: r.text() or r.json() settles.
BodyArrives(i, in) ==
  /\ req[i].pc = "body"
  /\ \E tx \in in.texts : Step(i, EvBody(tx))

\* The awaited promise rejects: the connection fails.
Rejects(i, in) ==
  /\ req[i].pc \in { "fetch", "body" }
  /\ \E err \in in.rejections : Step(i, EvReject(err))

\* The exchange is over and the connection serves the next request.
Close(i) ==
  /\ req[i].pc = "done"
  /\ req' = [req EXCEPT ![i] = Idle]
  /\ shadow' = [shadow EXCEPT ![i] = Idle]
  /\ UNCHANGED <<env, build>>

\* One request at a time, every answer of the provider.
Init ==
  /\ env \in Envs
  /\ build \in Builds
  /\ req = [i \in 1..1 |-> Idle]
  /\ shadow = req

Arrival == \E i \in DOMAIN req : Arrive(i, Rich)
Response == \E i \in DOMAIN req : FetchResolves(i, Rich)
Body == \E i \in DOMAIN req : BodyArrives(i, Rich)
Failure == \E i \in DOMAIN req : Rejects(i, Rich)
Closing == \E i \in DOMAIN req : Close(i)

Next == Arrival \/ Response \/ Body \/ Failure \/ Closing

Spec == Init /\ [][Next]_vars

(***************************************************************************)
(* Several requests in flight, their handlers interleaved at the awaits;   *)
(* every outbound call eventually resolves or rejects.                     *)
(***************************************************************************)
ListNoMatchText == "{\"agents\":[{\"agent_id\":\"X\"}]}"

Conc == [routes |-> ProxyRoutes, origins |-> { NoOrigin }, statuses |-> { 200, 404, 503 },
         texts |-> { "Bad Gateway", ListNoMatchText },
         rejections |-> { "FetchError: Premature close" }]

ConcInit ==
  /\ env \in [ALLOWED_ORIGINS : { <<>> }, ELEVEN_API_KEY : { <<>>, KeyA },
              ELEVEN_AGENT_ID : { AgentY }]
  /\ build = "multi"
  /\ req = [i \in 1..MaxReq |-> Idle]
  /\ shadow = req

ConcArrival == \E i \in DOMAIN req : Arrive(i, Conc)
ConcResponse == \E i \in DOMAIN req : FetchResolves(i, Conc)
ConcBody == \E i \in DOMAIN req : BodyArrives(i, Conc)
ConcFailure == \E i \in DOMAIN req : Rejects(i, Conc)

ConcNext == ConcArrival \/ ConcResponse \/ ConcBody \/ ConcFailure \/ Closing

\* The promise request i awaits settles.
Settles(i) == FetchResolves(i, Conc) \/ BodyArrives(i, Conc) \/ Rejects(i, Conc)

FairSpec == ConcInit /\ [][ConcNext]_vars /\ \A i \in 1..MaxReq : WF_vars(Settles(i))

(***************************************************************************)
(* The properties.                                                         *)
(***************************************************************************)
\* What the properties expect, written out as the bytes on the wire.
MissingEnvVarsText == "{\"error\":\"missing_env_vars\"}"

ServerErrorText(err) == "{\"error\":\"server_error\",\"detail\":\"" \o err \o "\"}"

AgentNotFoundText(agentText) ==
  "{\"ok\":false,\"error\":\"agent_not_found_on_any_endpoint\",\"agentId\":\"" \o agentText \o "\"}"

\* The agent id as text and as it stands in a URL.
AgentText == IF env.ELEVEN_AGENT_ID = AgentSlash THEN "a/b" ELSE Join(env.ELEVEN_AGENT_ID)
AgentInUrl == IF env.ELEVEN_AGENT_ID = AgentSlash THEN "a%2Fb" ELSE Join(env.ELEVEN_AGENT_ID)

Candidates ==
  << "https://api.elevenlabs.io/v1/agents/" \o AgentInUrl,
     "https://api.elevenlabs.io/v1/convai/agents/" \o AgentInUrl,
     "https://api.elevenlabs.io/v1/convai/agents?limit=200" >>

Only(st, body) == << [status |-> st, body |-> body] >>

IsMultiVerify(r) == build = "multi" /\ r.route = "/api/verify-agent"

\* C1: a proxying handler that runs while the API key or the agent id is
\* missing answers 500 {"error":"missing_env_vars"} and issues no outbound call.
C1_MissingEnvVars ==
  \A i \in DOMAIN req :
    (req[i].handled /\ req[i].route \in ProxyRoutes
       /\ (env.ELEVEN_API_KEY = <<>> \/ env.ELEVEN_AGENT_ID = <<>>))
    => /\ req[i].pc = "done"
       /\ req[i].resp = Only(500, MissingEnvVarsText)
       /\ req[i].calls = <<>>

C1_Witness ==
  \E i \in DOMAIN req :
    /\ req[i].route = "/api/webrtc-token-debug"
    /\ env.ELEVEN_API_KEY # <<>> /\ env.ELEVEN_AGENT_ID = <<>>
    /\ req[i].resp = Only(500, MissingEnvVarsText)

\* C2: a request reaches a route handler if and only if it carries no Origin
\* header or its Origin is an entry of the allow-list; a request that is
\* rejected issues no outbound call.
C2_OriginAllowList ==
  \A i \in DOMAIN req :
    req[i].pc # "idle" =>
      /\ req[i].handled <=>
           \/ ~req[i].origin.present
           \/ \E j \in 1..Len(allowList(env)) : allowList(env)[j] = req[i].origin.value
      /\ ~req[i].handled => (req[i].calls = <<>> /\ req[i].pc = "done")

\* C3: /api/webrtc-token and /api/webrtc-signed-url answer with exactly the
\* status and the body the provider answered with, whatever the status.
C3_PassThrough ==
  \A i \in DOMAIN req :
    (req[i].route \in { "/api/webrtc-token", "/api/webrtc-signed-url" }
       /\ req[i].pc = "done" /\ req[i].read)
    => req[i].resp = Only(req[i].status, req[i].text)

C3_Witness ==
  \E i \in DOMAIN req :
    /\ req[i].route = "/api/webrtc-signed-url"
    /\ req[i].answers = << 503 >> /\ req[i].read /\ req[i].text = "Bad Gateway"
    /\ req[i].resp = Only(503, "Bad Gateway")

\* C4: two runs that differ only in the (non-empty) API key and get the same
\* answers from the provider send the same responses and call the same URLs:
\* the key goes into the xi-api-key header and nowhere else.
C4_KeyNotEchoed ==
  \A i \in DOMAIN req :
    /\ shadow[i].resp = req[i].resp
    /\ shadow[i].pc = req[i].pc
    /\ Len(shadow[i].calls) = Len(req[i].calls)
    /\ \A j \in 1..Len(req[i].calls) :
         /\ shadow[i].calls[j].url = req[i].calls[j].url
         /\ req[i].calls[j].key = Join(env.ELEVEN_API_KEY)

C4_Witness ==
  \E i \in DOMAIN req :
    /\ req[i].route = "/api/verify-agent"
    /\ req[i].pc = "done" /\ req[i].thrown # <<>> /\ req[i].resp # <<>>
    /\ req[i].calls # <<>>
    /\ req[i].calls[1].key = "sk_A" /\ shadow[i].calls[1].key = "sk_BB"

\* C5: the handler that tries three endpoints calls them in their order, the
\* next one only after the one before answered 404, at most three, and none
\* after a response has been sent.
C5_CandidatesInOrder ==
  \A i \in DOMAIN req :
    IsMultiVerify(req[i]) =>
      /\ Len(req[i].calls) <= 3
      /\ Len(req[i].answers) <= Len(req[i].calls)
      /\ \A j \in 1..Len(req[i].calls) :
           /\ req[i].calls[j].url = Candidates[j]
           /\ ~req[i].calls[j].late
           /\ j > 1 => req[i].answers[j - 1] = 404
      /\ \A j \in 1..Len(req[i].answers) :
           req[i].answers[j] # 404 => Len(req[i].calls) = j
      /\ req[i].resp # <<>> => req[i].pc = "done"

C5_Witness ==
  \E i \in DOMAIN req :
    /\ IsMultiVerify(req[i])
    /\ Len(req[i].calls) = 3 /\ req[i].answers = << 404, 404, 200 >>
    /\ req[i].pc = "done"

\* C6, as the specification states it: when no endpoint answers 2xx, the
\* response is the 404 "agent_not_found_on_any_endpoint".
C6_NoneSucceeds ==
  \A i \in DOMAIN req :
    (IsMultiVerify(req[i]) /\ req[i].pc = "done" /\ req[i].read
       /\ \A j \in 1..Len(req[i].answers) : ~IsOk(req[i].answers[j]))
    => req[i].resp = Only(404, AgentNotFoundText(AgentText))

\* C6, amended: when all three endpoints answer 404, the response is the 404
\* "agent_not_found_on_any_endpoint"; an endpoint that answers another status
\* that is not 2xx ends the search and has its status and body forwarded.
C6_AllNotFound ==
  \A i \in DOMAIN req :
    (IsMultiVerify(req[i]) /\ req[i].pc = "done" /\ req[i].read /\ ~IsOk(req[i].status))
    => IF req[i].status = 404
       THEN /\ req[i].answers = << 404, 404, 404 >>
            /\ req[i].resp = Only(404, AgentNotFoundText(AgentText))
       ELSE req[i].resp = Only(req[i].status, req[i].text)

C6_Witness ==
  \E i \in DOMAIN req :
    /\ IsMultiVerify(req[i])
    /\ req[i].answers = << 404, 404, 404 >> /\ req[i].read
    /\ env.ELEVEN_AGENT_ID = AgentSlash
    /\ req[i].resp = Only(404, AgentNotFoundText("a/b"))
\* C7: on a 2xx answer whose JSON body has an array "agents", the handler
\* answers {ok:true, from:<the endpoint's URL>, agent:<the first entry whose
\* agent_id or id is the configured agent id>}, and forwards the provider's
\* status and body when no entry matches; with 404, 404 and then 200
\* {"agents":[{"agent_id":"X"},{"agent_id":"Y"}]} and the agent id Y the
\* response is {"ok":true,"from":<third URL>,"agent":{"agent_id":"Y"}}.
IsTheAgent(a) ==
  \/ Get(a, "agent_id") = JStr(env.ELEVEN_AGENT_ID)
  \/ Get(a, "id") = JStr(env.ELEVEN_AGENT_ID)

FoundText(url, a) ==
  "{\"ok\":true,\"from\":\"" \o url \o "\",\"agent\":" \o JSONStringify(a) \o "}"

C7_ListSearch ==
  \A i \in DOMAIN req :
    LET r == req[i]
        parsed == JSONParse(r.text)
        agents == Get(parsed.v, "agents")
        firstHit == CHOOSE j \in 1..Len(agents.a) :
                      /\ IsTheAgent(agents.a[j])
                      /\ \A h \in 1..(j - 1) : ~IsTheAgent(agents.a[h])
    IN /\ (IsMultiVerify(r) /\ r.pc = "done" /\ r.read /\ IsOk(r.status)
             /\ parsed.ok /\ agents.t = "arr")
          => IF \E j \in 1..Len(agents.a) : IsTheAgent(agents.a[j])
             THEN r.resp = Only(200, FoundText(Candidates[Len(r.answers)], agents.a[firstHit]))
             ELSE r.resp = Only(r.status, r.text)
       /\ (IsMultiVerify(r) /\ r.pc = "done" /\ r.read /\ env.ELEVEN_AGENT_ID = AgentY
             /\ r.answers = << 404, 404, 200 >>
             /\ r.text = "{\"agents\":[{\"agent_id\":\"X\"},{\"agent_id\":\"Y\"}]}")
          => r.resp = Only(200,
               "{\"ok\":true,\"from\":\"https://api.elevenlabs.io/v1/convai/agents?limit=200\",\"agent\":{\"agent_id\":\"Y\"}}")

C7_Witness ==
  \E i \in DOMAIN req :
    /\ IsMultiVerify(req[i]) /\ env.ELEVEN_AGENT_ID = AgentY
    /\ req[i].answers = << 404, 404, 200 >> /\ req[i].read
    /\ req[i].text = "{\"agents\":[{\"agent_id\":\"X\"},{\"agent_id\":\"Y\"}]}"
    /\ req[i].pc = "done" /\ Len(req[i].resp) = 1

C7_WitnessNoMatch ==
  \E i \in DOMAIN req :
    /\ IsMultiVerify(req[i]) /\ env.ELEVEN_AGENT_ID = AgentY
    /\ req[i].read /\ req[i].text = "{\"agents\":[{\"agent_id\":\"X\"},null]}"
    /\ req[i].resp = Only(201, "{\"agents\":[{\"agent_id\":\"X\"},null]}")

\* C8, as the specification states it: every exception raised in a proxying
\* handler ends in 500 {error:"server_error", detail:<the exception>}.
C8_AlwaysServerError ==
  \A i \in DOMAIN req :
    (req[i].route \in ProxyRoutes /\ req[i].thrown # <<>>)
    => /\ req[i].pc = "done"
       /\ req[i].resp = Only(500, ServerErrorText(req[i].thrown[1].err))

\* C8, amended: every exception raised in a proxying handler ends in 500
\* {error:"server_error", detail:<the exception>}, except a body of a 2xx
\* answer that JSON.parse rejects in the handler that tries three endpoints:
\* its inner catch answers 200 {ok:true, from:<URL>, raw:<the body>}.  No
\* exception leaves the handler without a response.
C8_CaughtExceptions ==
  \A i \in DOMAIN req :
    (req[i].route \in ProxyRoutes /\ req[i].thrown # <<>>)
    => /\ req[i].pc = "done"
       /\ Len(req[i].thrown) = 1
       /\ IF IsMultiVerify(req[i]) /\ req[i].thrown[1].site = "JSON.parse"
          THEN req[i].resp =
                 Only(200, "{\"ok\":true,\"from\":\"" \o Candidates[Len(req[i].answers)]
                           \o "\",\"raw\":\"" \o req[i].text \o "\"}")
          ELSE req[i].resp = Only(500, ServerErrorText(req[i].thrown[1].err))

C8_Witness ==
  \E i \in DOMAIN req :
    /\ req[i].route = "/api/webrtc-token-debug"
    /\ req[i].thrown # <<>> /\ req[i].thrown[1].site = "decode"
    /\ req[i].resp # <<>> /\ req[i].resp[1].status = 500

C8_WitnessRaw ==
  \E i \in DOMAIN req :
    /\ IsMultiVerify(req[i])
    /\ req[i].thrown # <<>> /\ req[i].thrown[1].site = "JSON.parse"
    /\ req[i].text = "Bad Gateway" /\ req[i].resp # <<>> /\ req[i].resp[1].status = 200

\* C9: when the provider answers the token fetch of /api/webrtc-token-debug
\* with a status that is not 2xx, the response carries that status and the
\* provider's body (as sent, or the same JSON value), whether or not the body
\* is JSON, and no token is decoded.
SameJson(a, b) ==
  /\ JSONParse(a).ok /\ JSONParse(b).ok
  /\ JSONParse(a).v = JSONParse(b).v

C9_DebugForwardsError ==
  \A i \in DOMAIN req :
    (req[i].route = "/api/webrtc-token-debug" /\ req[i].pc = "done" /\ req[i].read
       /\ ~IsOk(req[i].status))
    => /\ Len(req[i].resp) = 1
       /\ req[i].resp[1].status = req[i].status
       /\ req[i].resp[1].body = req[i].text \/ SameJson(req[i].resp[1].body, req[i].text)
       /\ \A j \in 1..Len(req[i].thrown) : req[i].thrown[j].site # "decode"

\* C10: a request that reaches a proxying handler gets exactly one response:
\* never a second one, one once the handler has returned, no outbound call
\* after it, and, every outbound call settling in the end, the handler does
\* return, however the handlers of the requests in flight are interleaved.
C10_ExactlyOneResponse ==
  \A i \in 1..MaxReq :
    /\ [](/\ Len(req[i].resp) <= 1
          /\ req[i].pc = "done" => Len(req[i].resp) = 1
          /\ req[i].resp # <<>> => req[i].pc = "done")
    /\ (req[i].pc \in { "fetch", "body" }) ~> (req[i].pc = "done" /\ Len(req[i].resp) = 1)

C10_Witness ==
  \E i, j \in DOMAIN req :
    /\ i # j
    /\ req[i].route = "/api/verify-agent" /\ req[i].pc = "body" /\ req[i].k = 3
    /\ req[j].route = "/api/webrtc-token-debug" /\ req[j].pc = "done"
    /\ req[j].thrown # <<>> /\ Len(req[j].resp) = 1

====
